---- MODULE Spec2Model ----
(***************************************************************************)
(* Weather-alert monitoring engine of the backend:                         *)
(*   app/services/weather_alerts.py  (registry, evaluator, monitoring)     *)
(*   app/services/notifications.py   (device tokens, dispatch)             *)
(*   app/tools/weather.py            (weather client, as far as its        *)
(*                                    results are read by the evaluator)   *)
(*                                                                         *)
(* Python values are modelled as follows.  Optional[T] is <<>> for None    *)
(* and <<v>> for a value v.  A dict or dataclass is a record.  Floats are  *)
(* integers (every comparison of the code is against an integer literal    *)
(* or another reading).  asyncio runs one task at a time; a task gives up  *)
(* control only at an await that really suspends: the two HTTP fetches of  *)
(* check_weather_for_user and the sleep of start_monitoring.               *)
(***************************************************************************)
EXTENDS Integers, Sequences, FiniteSets, TLC

VARIABLES
    subscriptions,  \* WeatherAlertService._subscriptions: <<user, object id>> in insertion order
    heap,           \* the UserWeatherSubscription objects, by object id
    running,        \* WeatherAlertService._running
    prev_run,       \* history: per object, the conditions its last completed evaluation fetched
    tasks,          \* the asyncio tasks: monitoring loops and manual checks
    device_tokens,  \* NotificationService._device_tokens: user -> Optional[DeviceToken]
    crowd,          \* the other entries of _device_tokens, those of users no call
                    \* names: last_used hour -> how many entries were last used then
    initialized,    \* NotificationService._initialized
    now,            \* datetime.utcnow(), in hours
    ev              \* the call made by the last step and what it returned

vars == <<subscriptions, heap, running, prev_run, tasks, device_tokens, crowd,
          initialized, now, ev>>

-----------------------------------------------------------------------------
(* Python values *)

None == <<>>
Some(v) == <<v>>
IsNone(o) == o = None
Val(o) == o[1]

\* dict.get(key, default)
Get(d, key, default) == IF key \in DOMAIN d THEN d[key] ELSE default

abs(x) == IF x < 0 THEN -x ELSE x

\* Truth value of an Optional[dict]: None and the empty dict are falsy
Truthy(o) == ~IsNone(o) /\ DOMAIN Val(o) # {}

Min(a, b) == IF a < b THEN a ELSE b

\* list[:n]
Take(s, n) == SubSeq(s, 1, Min(n, Len(s)))

\* dict update: the keys of kw replace those of d
Merge(d, kw) == [k \in DOMAIN d \cup DOMAIN kw |-> IF k \in DOMAIN kw THEN kw[k] ELSE d[k]]

EmptyDict == [k \in {} |-> TRUE]

-----------------------------------------------------------------------------
(* Bounds of the model *)

Users == {"u1", "u2"}

TaskIds == {"t1", "t2"}

ObjIds == {1, 2, 3}

MaxForecastLen == 7

MaxDays == 31

-----------------------------------------------------------------------------
(* app/tools/weather.py *)

WMOCodes == {0, 1, 2, 3, 45, 48, 51, 53, 55, 56, 57, 61, 63, 65, 66, 67,
             71, 73, 75, 77, 80, 81, 82, 85, 86, 95, 96, 99}

\* _weather_code_to_description: the table, and "Unknown (code)" outside it
_weather_code_to_description(code) ==
    CASE code = 0 -> "Clear sky"
      [] code = 1 -> "Mainly clear"
      [] code = 2 -> "Partly cloudy"
      [] code = 3 -> "Overcast"
      [] code = 45 -> "Foggy"
      [] code = 48 -> "Depositing rime fog"
      [] code = 51 -> "Light drizzle"
      [] code = 53 -> "Moderate drizzle"
      [] code = 55 -> "Dense drizzle"
      [] code = 56 -> "Light freezing drizzle"
      [] code = 57 -> "Dense freezing drizzle"
      [] code = 61 -> "Slight rain"
      [] code = 63 -> "Moderate rain"
      [] code = 65 -> "Heavy rain"
      [] code = 66 -> "Light freezing rain"
      [] code = 67 -> "Heavy freezing rain"
      [] code = 71 -> "Slight snowfall"
      [] code = 73 -> "Moderate snowfall"
      [] code = 75 -> "Heavy snowfall"
      [] code = 77 -> "Snow grains"
      [] code = 80 -> "Slight rain showers"
      [] code = 81 -> "Moderate rain showers"
      [] code = 82 -> "Violent rain showers"
      [] code = 85 -> "Slight snow showers"
      [] code = 86 -> "Heavy snow showers"
      [] code = 95 -> "Thunderstorm"
      [] code = 96 -> "Thunderstorm with slight hail"
      [] code = 99 -> "Thunderstorm with heavy hail"
      [] OTHER -> "Unknown (code)"

\* The dict get_current_weather returns, with the keys the evaluator reads.
\* Every reading is a number: the request names each of them (lines 34-46)
\* and the provider answers with a value for each.
CurrentWeather(temperature, precipitation, wind_speed, wind_gusts, weather_code) ==
    [temperature |-> temperature,
     precipitation |-> precipitation,
     wind_speed |-> wind_speed,
     wind_gusts |-> wind_gusts,
     weather_code |-> weather_code,
     weather_description |-> _weather_code_to_description(weather_code)]

\* One entry of get_hourly_forecast's "forecasts": the hour and its
\* precipitation probability, which is None when the provider sends none.
HourForecast(time, prob) == [time |-> time, precipitation_probability |-> prob]

\* The dict get_hourly_forecast returns, from the probabilities of its hours.
HourlyForecast(probs) ==
    [forecasts |-> [i \in 1..Len(probs) |-> HourForecast(i - 1, probs[i])]]

-----------------------------------------------------------------------------
(* app/services/weather_alerts.py: the alert evaluator *)

severe_codes == {95, 96, 99, 65, 67, 75, 82, 86}

GustLimit == 50
WindLimit == 35
RainHours == 6
RainProbLimit == 60
TempDelta == 5
DefaultThresholdHigh == 95
DefaultThresholdLow == 32

\* _check_severe_weather(current, sub) -> Optional[alert]
SevereOnlyWhenCalm(current, sub) ==
    LET weather_code == Get(current, "weather_code", 0)
        wind_speed == Get(current, "wind_speed", 0)
        wind_gusts == Get(current, "wind_gusts", 0)
    IN  IF wind_gusts > GustLimit \/ wind_speed > WindLimit
        THEN Some([type |-> "high_wind",
                   message |-> <<"High wind warning: Gusts up to", wind_gusts, "mph">>,
                   wind_speed |-> wind_speed,
                   wind_gusts |-> wind_gusts])
        ELSE IF weather_code \in severe_codes
        THEN Some([type |-> "severe_weather",
                   message |-> <<"Severe weather alert:",
                                 Get(current, "weather_description", ""),
                                 "Take precautions!">>,
                   weather_code |-> weather_code])
        ELSE None

_check_severe_weather(current, sub) ==
    LET weather_code == Get(current, "weather_code", 0)
        description == Get(current, "weather_description", "")
        wind_speed == Get(current, "wind_speed", 0)
        wind_gusts == Get(current, "wind_gusts", 0)
    IN  IF weather_code \in severe_codes
        THEN Some([type |-> "severe_weather",
                   message |-> <<"Severe weather alert:", description, "Take precautions!">>,
                   weather_code |-> weather_code])
        ELSE IF wind_gusts > GustLimit \/ wind_speed > WindLimit
        THEN Some([type |-> "high_wind",
                   message |-> <<"High wind warning: Gusts up to", wind_gusts, "mph">>,
                   wind_speed |-> wind_speed,
                   wind_gusts |-> wind_gusts])
        ELSE None

\* `precip_prob and precip_prob > 60`: None and 0 are falsy
RainLikely(hour_forecast) ==
    LET precip_prob == Get(hour_forecast, "precipitation_probability", Some(0))
    IN  /\ ~IsNone(precip_prob)
        /\ Val(precip_prob) # 0
        /\ Val(precip_prob) > RainProbLimit

\* The alert _check_rain builds for forecasts[i] (i counted from 0, as enumerate does)
RainAlert(i, hour_forecast) ==
    LET precip_prob == Val(hour_forecast.precipitation_probability)
    IN  [type |-> "rain_coming",
         message |-> <<"Rain expected in ~", i + 1, "hour(s)", precip_prob, "% chance">>,
         probability |-> precip_prob,
         time |-> Get(hour_forecast, "time", "")]

\* _check_rain(current, forecast, sub) -> Optional[alert]
RainIgnoringCurrent(current, forecast, sub) ==
    LET forecasts == Take(Get(forecast, "forecasts", <<>>), RainHours)
        hits == {k \in 1..Len(forecasts) : RainLikely(forecasts[k])}
    IN  IF hits = {} THEN None
        ELSE LET k == CHOOSE h \in hits : \A g \in hits : h <= g
             IN  Some(RainAlert(k - 1, forecasts[k]))

_check_rain(current, forecast, sub) ==
    IF Get(current, "precipitation", 0) > 0
    THEN None
    ELSE LET forecasts == Take(Get(forecast, "forecasts", <<>>), RainHours)
             hits == {k \in 1..Len(forecasts) : RainLikely(forecasts[k])}
         IN  IF hits = {} THEN None
             ELSE LET k == CHOOSE h \in hits : \A g \in hits : h <= g
                  IN  Some(RainAlert(k - 1, forecasts[k]))

\* The threshold part of _check_temperature (lines 261-275)
TemperatureAlert(temp, sub) ==
    IF temp >= sub.temperature_threshold_high
    THEN Some([type |-> "high_temperature",
               message |-> <<"High temperature alert:", temp>>,
               temperature |-> temp])
    ELSE IF temp <= sub.temperature_threshold_low
    THEN Some([type |-> "low_temperature",
               message |-> <<"Low temperature alert:", temp>>,
               temperature |-> temp])
    ELSE None

\* _check_temperature(current, sub) -> Optional[alert]
TemperatureStrictThresholds(current, sub) ==
    LET temp == Get(current, "temperature", 70)
        suppressed ==
            /\ Truthy(sub.last_conditions)
            /\ abs(temp - Get(Val(sub.last_conditions), "temperature", temp)) < TempDelta
    IN  IF suppressed THEN None
        ELSE IF temp > sub.temperature_threshold_high
        THEN Some([type |-> "high_temperature",
                   message |-> <<"High temperature alert:", temp>>,
                   temperature |-> temp])
        ELSE IF temp < sub.temperature_threshold_low
        THEN Some([type |-> "low_temperature",
                   message |-> <<"Low temperature alert:", temp>>,
                   temperature |-> temp])
        ELSE None

_check_temperature(current, sub) ==
    LET temp == Get(current, "temperature", 70)
        suppressed ==
            /\ Truthy(sub.last_conditions)
            /\ abs(temp - Get(Val(sub.last_conditions), "temperature", temp)) < TempDelta
    IN  IF suppressed THEN None ELSE TemperatureAlert(temp, sub)

-----------------------------------------------------------------------------
(* app/services/weather_alerts.py: the subscription registry *)

\* _subscriptions is a dict: a sequence of <<key, value>> in insertion order
DictKeys(d) == [i \in 1..Len(d) |-> d[i][1]]
DictHas(d, k) == \E i \in 1..Len(d) : d[i][1] = k
DictGet(d, k) == d[CHOOSE i \in 1..Len(d) : d[i][1] = k][2]
DictSet(d, k, v) ==
    IF DictHas(d, k)
    THEN [i \in 1..Len(d) |-> IF d[i][1] = k THEN <<k, v>> ELSE d[i]]
    ELSE Append(d, <<k, v>>)
\* A del that empties the dict
DictClear(d, k) == <<>>

DictDel(d, k) == SelectSeq(d, LAMBDA e : e[1] # k)

\* The attributes of a UserWeatherSubscription (dataclass, lines 15-29)
SubscriptionFields ==
    {"user_id", "latitude", "longitude", "location_name", "alerts_enabled",
     "rain_alerts", "temperature_alerts", "severe_weather_alerts",
     "temperature_threshold_high", "temperature_threshold_low",
     "last_checked", "last_conditions"}

\* A constructor that drops the keyword options
SubscriptionWithoutOptions(user_id, latitude, longitude, location_name, kwargs) ==
    [user_id |-> user_id,
     latitude |-> latitude,
     longitude |-> longitude,
     location_name |-> location_name,
     alerts_enabled |-> TRUE,
     rain_alerts |-> TRUE,
     temperature_alerts |-> TRUE,
     severe_weather_alerts |-> TRUE,
     temperature_threshold_high |-> DefaultThresholdHigh,
     temperature_threshold_low |-> DefaultThresholdLow,
     last_checked |-> None,
     last_conditions |-> None]

\* A subscription object that does not keep the user it was made for
SubscriptionOfNobody(user_id, latitude, longitude, location_name, kwargs) ==
    Merge([user_id |-> "",
           latitude |-> latitude,
           longitude |-> longitude,
           location_name |-> location_name,
           alerts_enabled |-> TRUE,
           rain_alerts |-> TRUE,
           temperature_alerts |-> TRUE,
           severe_weather_alerts |-> TRUE,
           temperature_threshold_high |-> DefaultThresholdHigh,
           temperature_threshold_low |-> DefaultThresholdLow,
           last_checked |-> None,
           last_conditions |-> None],
          kwargs)

\* UserWeatherSubscription(user_id=..., latitude=..., ..., **kwargs)
UserWeatherSubscription(user_id, latitude, longitude, location_name, kwargs) ==
    Merge([user_id |-> user_id,
           latitude |-> latitude,
           longitude |-> longitude,
           location_name |-> location_name,
           alerts_enabled |-> TRUE,
           rain_alerts |-> TRUE,
           temperature_alerts |-> TRUE,
           severe_weather_alerts |-> TRUE,
           temperature_threshold_high |-> DefaultThresholdHigh,
           temperature_threshold_low |-> DefaultThresholdLow,
           last_checked |-> None,
           last_conditions |-> None],
          kwargs)

\* A loop that setattr's every key, known to the object or not
SetAttrsUnchecked(sub, kwargs) == Merge(sub, kwargs)

\* The loop of update_subscription: setattr for every key the object has
SetAttrs(sub, kwargs) ==
    [k \in DOMAIN sub |-> IF k \in DOMAIN kwargs THEN kwargs[k] ELSE sub[k]]

\* update_subscription(self, user_id, **kwargs) called with user_id among the
\* keywords as well: the call raises TypeError (multiple values for argument
\* 'user_id') and the body of line 98-104 does not run.
BoundTwice(kwargs) == "user_id" \in DOMAIN kwargs

\* Object ids a dict or a task still refers to; the others are garbage
Referenced(subs, tks) ==
    {subs[i][2] : i \in 1..Len(subs)}
        \cup {Val(tks[t].sub) : t \in {x \in DOMAIN tks : ~IsNone(tks[x].sub)}}

Collect(h, subs, tks) ==
    [o \in DOMAIN h |-> IF o \in Referenced(subs, tks) THEN h[o] ELSE None]

FreeIds(h) == {o \in DOMAIN h : IsNone(h[o])}

MinOf(S) == CHOOSE m \in S : \A n \in S : m <= n

-----------------------------------------------------------------------------
(* app/services/notifications.py *)

TOKEN_TTL_DAYS == 30
MAX_TOKENS == 10000
CleanupMargin == 100
HoursPerDay == 24

\* timedelta.days of a span of hours: the whole days in it
Days(hours) == hours \div HoursPerDay

DeviceToken(token, registered_at, last_used) ==
    [token |-> token, registered_at |-> registered_at, last_used |-> last_used]

Registered(tokens) == {u \in DOMAIN tokens : ~IsNone(tokens[u])}

\* Line 65-68: expired_users at time t, among the users the calls name
expired_users(tokens, t) ==
    {u \in Registered(tokens) : Days(t - Val(tokens[u]).last_used) > TOKEN_TTL_DAYS}

\* Line 65-68 for the other entries: the last_used hours that are expired at t
expired_hours(others, t) ==
    {h \in DOMAIN others : Days(t - h) > TOKEN_TTL_DAYS}

\* How many entries the hours of S stand for
RECURSIVE Entries(_, _)
Entries(others, S) ==
    IF S = {} THEN 0
    ELSE LET h == CHOOSE x \in S : TRUE
         IN  others[h] + Entries(others, S \ {h})

\* len(self._device_tokens)
Size(tokens, others) ==
    Cardinality(Registered(tokens)) + Entries(others, DOMAIN others)

\* _cleanup_expired_tokens at time t: [tokens, others, ret], the registry
\* after the pass and the number of entries removed
_cleanup_expired_tokens(tokens, others, t) ==
    LET gone == expired_users(tokens, t)
        hours == expired_hours(others, t)
    IN  [tokens |-> [u \in DOMAIN tokens |-> IF u \in gone THEN None ELSE tokens[u]],
         others |-> [h \in DOMAIN others \ hours |-> others[h]],
         ret |-> Cardinality(gone) + Entries(others, hours)]

\* Lines 87-88: what the cleanup pass returned, None when it did not run
CleanupWhenNearLimit(tokens, others, t) ==
    IF Size(tokens, others) >= MAX_TOKENS - CleanupMargin
    THEN Some(_cleanup_expired_tokens(tokens, others, t))
    ELSE None

\* A registration that refuses every user once the registry is full
RegisterRejectsWhenFull(tokens, others, user_id, device_token, t) ==
    LET pass == CleanupWhenNearLimit(tokens, others, t)
        cleaned == IF IsNone(pass) THEN tokens ELSE Val(pass).tokens
        rest == IF IsNone(pass) THEN others ELSE Val(pass).others
        cleanup == IF IsNone(pass) THEN None ELSE Some(Val(pass).ret)
    IN  IF Size(cleaned, rest) >= MAX_TOKENS
        THEN [tokens |-> cleaned, others |-> rest, ret |-> FALSE, cleanup |-> cleanup]
        ELSE [tokens |-> [cleaned EXCEPT ![user_id] = Some(DeviceToken(device_token, t, t))],
              others |-> rest, ret |-> TRUE, cleanup |-> cleanup]

\* A registration without the limit of lines 90-92
RegisterWithoutLimit(tokens, others, user_id, device_token, t) ==
    LET pass == CleanupWhenNearLimit(tokens, others, t)
        cleaned == IF IsNone(pass) THEN tokens ELSE Val(pass).tokens
        rest == IF IsNone(pass) THEN others ELSE Val(pass).others
        cleanup == IF IsNone(pass) THEN None ELSE Some(Val(pass).ret)
    IN  [tokens |-> [cleaned EXCEPT ![user_id] = Some(DeviceToken(device_token, t, t))],
         others |-> rest, ret |-> TRUE, cleanup |-> cleanup]

\* register_device(user_id, device_token) at time t: [tokens, others, ret,
\* cleanup], cleanup being what the cleanup pass returned, None when it did
\* not run
register_device(tokens, others, user_id, device_token, t) ==
    LET pass == CleanupWhenNearLimit(tokens, others, t)
        cleaned == IF IsNone(pass) THEN tokens ELSE Val(pass).tokens
        rest == IF IsNone(pass) THEN others ELSE Val(pass).others
        cleanup == IF IsNone(pass) THEN None ELSE Some(Val(pass).ret)
    IN  IF Size(cleaned, rest) >= MAX_TOKENS /\ user_id \notin Registered(cleaned)
        THEN [tokens |-> cleaned, others |-> rest, ret |-> FALSE, cleanup |-> cleanup]
        ELSE [tokens |-> [cleaned EXCEPT ![user_id] = Some(DeviceToken(device_token, t, t))],
              others |-> rest, ret |-> TRUE, cleanup |-> cleanup]

\* An unregistration that reports the entry and leaves it in place
UnregisterKeepsEntry(tokens, user_id) ==
    [tokens |-> tokens, ret |-> user_id \in Registered(tokens)]

\* unregister_device(user_id): [tokens, ret]
unregister_device(tokens, user_id) ==
    IF user_id \in Registered(tokens)
    THEN [tokens |-> [tokens EXCEPT ![user_id] = None], ret |-> TRUE]
    ELSE [tokens |-> tokens, ret |-> FALSE]

\* A lookup that refreshes every entry of the registry
GetRefreshesEveryEntry(tokens, user_id, t) ==
    IF ~IsNone(tokens[user_id])
    THEN [tokens |-> [u \in DOMAIN tokens |->
                         IF IsNone(tokens[u]) THEN None
                         ELSE Some(DeviceToken(Val(tokens[u]).token,
                                               Val(tokens[u]).registered_at, t))],
          ret |-> Some(Val(tokens[user_id]).token)]
    ELSE [tokens |-> tokens, ret |-> None]

\* A lookup that leaves last_used as it was
GetWithoutRefresh(tokens, user_id, t) ==
    IF ~IsNone(tokens[user_id])
    THEN [tokens |-> tokens, ret |-> Some(Val(tokens[user_id]).token)]
    ELSE [tokens |-> tokens, ret |-> None]

\* get_device_token(user_id) at time t: [tokens, ret]
get_device_token(tokens, user_id, t) ==
    IF ~IsNone(tokens[user_id])
    THEN [tokens |-> [tokens EXCEPT ![user_id] =
                         Some(DeviceToken(Val(@).token, Val(@).registered_at, t))],
          ret |-> Some(Val(tokens[user_id]).token)]
    ELSE [tokens |-> tokens, ret |-> None]

\* send_notification(user_id, ...) at time t: [tokens, ret, pushed].  `accepts`
\* says whether messaging.send takes the message or raises; pushed says
\* whether the push transport was contacted.  Line 153, `not device_token`,
\* is true of None and of the empty string.
send_notification(tokens, init, user_id, accepts, t) ==
    LET got == get_device_token(tokens, user_id, t)
    IN  IF IsNone(got.ret) \/ Val(got.ret) = ""
        THEN [tokens |-> got.tokens, ret |-> FALSE, pushed |-> FALSE]
        ELSE IF ~init
        THEN [tokens |-> got.tokens, ret |-> TRUE, pushed |-> FALSE]
        ELSE [tokens |-> got.tokens, ret |-> accepts, pushed |-> TRUE]

\* send_to_multiple(user_ids, title, body) at time t: [tokens, results,
\* pushed], one send_notification per element of user_ids in order, accepts[i]
\* saying what messaging.send does with the i-th; results is the dict
\* returned, user -> Optional[bool], and pushed the positions that reached
\* the push transport.
RECURSIVE SendEach(_, _, _, _, _, _, _)
SendEach(acc, init, user_ids, accepts, t, i, n) ==
    IF i > n THEN acc
    ELSE LET r == send_notification(acc.tokens, init, user_ids[i], accepts[i], t)
         IN  SendEach([tokens |-> r.tokens,
                       results |-> [acc.results EXCEPT ![user_ids[i]] = Some(r.ret)],
                       pushed |-> IF r.pushed THEN acc.pushed \cup {i} ELSE acc.pushed],
                      init, user_ids, accepts, t, i + 1, n)

send_to_multiple(tokens, init, user_ids, accepts, t) ==
    SendEach([tokens |-> tokens, results |-> [u \in DOMAIN tokens |-> None], pushed |-> {}],
             init, user_ids, accepts, t, 1, Len(user_ids))

\* send_weather_alert(user_id, alert_type, location, message, severity):
\* [tokens, ret, call], call being the record of this dispatch
send_weather_alert(tokens, init, user_id, alert_type, location, message, severity, accepts, t) ==
    LET r == send_notification(tokens, init, user_id, accepts, t)
    IN  [tokens |-> r.tokens,
         ret |-> r.ret,
         call |-> [user_id |-> user_id,
                   alert_type |-> alert_type,
                   location |-> location,
                   message |-> message,
                   severity |-> severity,
                   delivered |-> r.ret]]

-----------------------------------------------------------------------------
(* app/services/weather_alerts.py: check_weather_for_user *)

\* A check that looks the user up and never reads alerts_enabled
CheckIgnoresMasterSwitch(subs, h, user_id) == DictHas(subs, user_id)

\* Lines 116-121: the check goes on to fetch only for a subscribed user
\* whose alerts_enabled is true.
CheckProceeds(subs, h, user_id) ==
    /\ DictHas(subs, user_id)
    /\ Val(h[DictGet(subs, user_id)]).alerts_enabled

\* The severity each category is dispatched with (lines 150, 163, 176)
SeveritySevere == "severe"
SeverityRain == "warning"
SeverityTemperature == "info"

\* An evaluation that runs the three checks whatever the toggles say
EvaluateAllCategories(sub, current, forecast) ==
    LET severe_alert == _check_severe_weather(current, sub)
        rain_alert == _check_rain(current, forecast, sub)
        temp_alert == _check_temperature(current, sub)
    IN  (IF IsNone(severe_alert) THEN <<>>
         ELSE <<[alert |-> Val(severe_alert),
                 alert_type |-> Val(severe_alert).type,
                 severity |-> SeveritySevere]>>)
        \o (IF IsNone(rain_alert) THEN <<>>
            ELSE <<[alert |-> Val(rain_alert),
                    alert_type |-> "rain",
                    severity |-> SeverityRain]>>)
        \o (IF IsNone(temp_alert) THEN <<>>
            ELSE <<[alert |-> Val(temp_alert),
                    alert_type |-> "temperature",
                    severity |-> SeverityTemperature]>>)

\* Lines 140-177: the alerts of one evaluation, in order, each with the
\* alert_type and severity it is dispatched with.
Evaluate(sub, current, forecast) ==
    LET severe_alert == IF sub.severe_weather_alerts
                        THEN _check_severe_weather(current, sub) ELSE None
        rain_alert == IF sub.rain_alerts
                      THEN _check_rain(current, forecast, sub) ELSE None
        temp_alert == IF sub.temperature_alerts
                      THEN _check_temperature(current, sub) ELSE None
    IN  (IF IsNone(severe_alert) THEN <<>>
         ELSE <<[alert |-> Val(severe_alert),
                 alert_type |-> Val(severe_alert).type,
                 severity |-> SeveritySevere]>>)
        \o (IF IsNone(rain_alert) THEN <<>>
            ELSE <<[alert |-> Val(rain_alert),
                    alert_type |-> "rain",
                    severity |-> SeverityRain]>>)
        \o (IF IsNone(temp_alert) THEN <<>>
            ELSE <<[alert |-> Val(temp_alert),
                    alert_type |-> "temperature",
                    severity |-> SeverityTemperature]>>)

\* A dispatch that notifies for the first alert of the evaluation only
DispatchFirstOnly(tokens, init, user_id, location, found, accepts, t) ==
    IF found = <<>>
    THEN [tokens |-> tokens, calls |-> <<>>]
    ELSE LET e == Head(found)
             r == send_weather_alert(tokens, init, user_id, e.alert_type, location,
                                     e.alert.message, e.severity, Head(accepts), t)
         IN  [tokens |-> r.tokens, calls |-> <<r.call>>]

\* The dispatches of one evaluation, in order: [tokens, calls]
RECURSIVE Dispatch(_, _, _, _, _, _, _)
Dispatch(tokens, init, user_id, location, found, accepts, t) ==
    IF found = <<>>
    THEN [tokens |-> tokens, calls |-> <<>>]
    ELSE LET e == Head(found)
             r == send_weather_alert(tokens, init, user_id, e.alert_type, location,
                                     e.alert.message, e.severity, Head(accepts), t)
             rest == Dispatch(r.tokens, init, user_id, location, Tail(found),
                              Tail(accepts), t)
         IN  [tokens |-> rest.tokens, calls |-> <<r.call>> \o rest.calls]

\* A write that stamps the time and keeps the old conditions
RecordCheckTimeOnly(sub, current, t) == [sub EXCEPT !.last_checked = Some(t)]

\* A write of last_conditions that leaves last_checked for later
RecordConditionsOnly(sub, current, t) == [sub EXCEPT !.last_conditions = Some(current)]

\* Lines 179-181: the write that ends a completed evaluation
RecordCheck(sub, current, t) ==
    [sub EXCEPT !.last_checked = Some(t), !.last_conditions = Some(current)]

\* An except clause that prints and raises again
OnFetchErrorReraise(alerts) == [ret |-> alerts, raised |-> TRUE]

\* Lines 183-186: `except Exception` prints and falls through to
\* `return alerts`; nothing is raised to the caller.
OnFetchError(alerts) == [ret |-> alerts, raised |-> FALSE]

-----------------------------------------------------------------------------
(* The asyncio tasks *)

IdleTask ==
    [kind |-> "idle", pc |-> "idle", user_id |-> None, sub |-> None,
     current |-> None, snapshot |-> <<>>, idx |-> 0, attempted |-> <<>>, failed |-> {},
     stopped |-> FALSE]

\* A task that is running now, not suspended in an await: the event loop
\* runs nothing else until it suspends or ends.
NoTaskRunning == \A t \in TaskIds : tasks[t].pc # "loop_next"

\* What the last step called and what came back
CheckEvent(t, user_id, outcome, sub, current, r, calls, fetches) ==
    [op |-> "check_weather_for_user",
     task |-> t,
     user_id |-> user_id,
     outcome |-> outcome,
     sub |-> sub,
     current |-> current,
     ret |-> r.ret,
     raised |-> r.raised,
     calls |-> calls,
     fetches |-> fetches]

AwaitEvent(t, user_id, what) ==
    [op |-> "await", task |-> t, user_id |-> user_id, what |-> what]

\* A for loop that leaves the cycle after the first check that came back
LoopBreaksAfterCheck(tk, raised) ==
    [tk EXCEPT !.pc = "loop_next", !.idx = Len(tk.snapshot) + 1,
               !.user_id = None, !.sub = None, !.current = None]

\* Lines 286-290: the for loop after check_weather_for_user came back,
\* by return or by an exception its `except Exception` swallows.
LoopAfterCheck(tk, raised) ==
    [tk EXCEPT !.pc = "loop_next", !.idx = @ + 1,
               !.user_id = None, !.sub = None, !.current = None]

\* The caller of check_weather_for_user resumes: the loop goes on, the
\* /alerts/check request ends.
ReturnTo(tk, r) ==
    IF tk.kind = "loop" THEN LoopAfterCheck(tk, r.raised) ELSE IdleTask

\* A snapshot that lists every key twice
SnapshotTwice(subs) == DictKeys(subs) \o DictKeys(subs)

\* Line 286: list(self._subscriptions.keys())
Snapshot(subs) == DictKeys(subs)

\* Lines 285-286: the while test and, when it passes, a new cycle
LoopTop(tk, isRunning, subs) ==
    IF isRunning
    THEN [tk EXCEPT !.kind = "loop", !.pc = "loop_next", !.snapshot = Snapshot(subs),
                    !.idx = 1, !.attempted = <<>>, !.failed = {}]
    ELSE IdleTask

CollectHist(hist, h) == [o \in DOMAIN hist |-> IF IsNone(h[o]) THEN None ELSE hist[o]]

-----------------------------------------------------------------------------
(* Actions *)

\* subscribe(user_id, latitude, longitude, location_name, **kwargs)
Subscribe(user_id, loc, kwargs) ==
    LET free == ObjIds \ Referenced(DictDel(subscriptions, user_id), tasks)
        id == MinOf(free)
        obj == UserWeatherSubscription(user_id, loc.latitude, loc.longitude,
                                       loc.location_name, kwargs)
        subs == DictSet(subscriptions, user_id, id)
        h == Collect([heap EXCEPT ![id] = Some(obj)], subs, tasks)
    IN  /\ NoTaskRunning
        /\ free # {}
        /\ subscriptions' = subs
        /\ heap' = h
        /\ prev_run' = CollectHist([prev_run EXCEPT ![id] = None], h)
        /\ ev' = [op |-> "subscribe", user_id |-> user_id, location |-> loc,
                  kwargs |-> kwargs, replaced |-> DictHas(subscriptions, user_id),
                  ret |-> TRUE]
        /\ UNCHANGED <<running, tasks, device_tokens, crowd, initialized, now>>

\* unsubscribe(user_id)
Unsubscribe(user_id) ==
    LET had == DictHas(subscriptions, user_id)
        subs == IF had THEN DictDel(subscriptions, user_id) ELSE subscriptions
        h == Collect(heap, subs, tasks)
    IN  /\ NoTaskRunning
        /\ subscriptions' = subs
        /\ heap' = h
        /\ prev_run' = CollectHist(prev_run, h)
        /\ ev' = [op |-> "unsubscribe", user_id |-> user_id, ret |-> had]
        /\ UNCHANGED <<running, tasks, device_tokens, crowd, initialized, now>>

\* update_subscription(user_id, **kwargs)
UpdateSubscription(user_id, kwargs) ==
    LET had == DictHas(subscriptions, user_id)
    IN  /\ NoTaskRunning
        /\ IF BoundTwice(kwargs)
           THEN /\ ev' = [op |-> "TypeError", call |-> "update_subscription",
                          user_id |-> user_id, kwargs |-> kwargs]
                /\ heap' = heap
           ELSE /\ heap' = IF had
                           THEN [heap EXCEPT ![DictGet(subscriptions, user_id)] =
                                    Some(SetAttrs(Val(@), kwargs))]
                           ELSE heap
                /\ ev' = [op |-> "update_subscription", user_id |-> user_id,
                          kwargs |-> kwargs, ret |-> had]
        /\ UNCHANGED <<subscriptions, running, prev_run, tasks, device_tokens, crowd,
                       initialized, now>>

\* register_device(user_id, device_token)
RegisterDevice(user_id, device_token) ==
    LET r == register_device(device_tokens, crowd, user_id, device_token, now)
    IN  /\ NoTaskRunning
        /\ device_tokens' = r.tokens
        /\ crowd' = r.others
        /\ ev' = [op |-> "register_device", user_id |-> user_id,
                  device_token |-> device_token,
                  present |-> user_id \in Registered(device_tokens),
                  ret |-> r.ret, cleanup |-> r.cleanup]
        /\ UNCHANGED <<subscriptions, heap, running, prev_run, tasks, initialized, now>>

\* unregister_device(user_id)
UnregisterDevice(user_id) ==
    LET r == unregister_device(device_tokens, user_id)
    IN  /\ NoTaskRunning
        /\ device_tokens' = r.tokens
        /\ ev' = [op |-> "unregister_device", user_id |-> user_id, ret |-> r.ret]
        /\ UNCHANGED <<crowd, subscriptions, heap, running, prev_run, tasks, initialized, now>>

\* get_device_token(user_id)
GetDeviceToken(user_id) ==
    LET r == get_device_token(device_tokens, user_id, now)
    IN  /\ NoTaskRunning
        /\ device_tokens' = r.tokens
        /\ ev' = [op |-> "get_device_token", user_id |-> user_id, ret |-> r.ret]
        /\ UNCHANGED <<crowd, subscriptions, heap, running, prev_run, tasks, initialized, now>>

\* send_notification(user_id, title, body), as POST /notifications/test
\* calls it
SendNotification(user_id, accepts) ==
    LET r == send_notification(device_tokens, initialized, user_id, accepts, now)
    IN  /\ NoTaskRunning
        /\ device_tokens' = r.tokens
        /\ ev' = [op |-> "send_notification", user_id |-> user_id,
                  accepts |-> accepts, ret |-> r.ret, pushed |-> r.pushed]
        /\ UNCHANGED <<crowd, subscriptions, heap, running, prev_run, tasks, initialized, now>>

\* send_to_multiple(user_ids, title, body)
SendToMultiple(user_ids, accepts) ==
    LET r == send_to_multiple(device_tokens, initialized, user_ids, accepts, now)
    IN  /\ NoTaskRunning
        /\ device_tokens' = r.tokens
        /\ ev' = [op |-> "send_to_multiple", user_ids |-> user_ids,
                  accepts |-> accepts, results |-> r.results, pushed |-> r.pushed]
        /\ UNCHANGED <<crowd, subscriptions, heap, running, prev_run, tasks, initialized, now>>

\* Time passes: the clock reads t
Tick(t) ==
    /\ NoTaskRunning
    /\ t > now
    /\ now' = t
    /\ ev' = [op |-> "tick"]
    /\ UNCHANGED <<subscriptions, heap, running, prev_run, tasks, device_tokens, crowd, initialized>>

\* check_weather_for_user(user_id) entered by task tk (lines 116-131): it
\* returns [] at once, or suspends in get_current_weather.
EnterCheck(t, tk, user_id) ==
    IF CheckProceeds(subscriptions, heap, user_id)
    THEN /\ tasks' = [tasks EXCEPT ![t] =
                        [tk EXCEPT !.pc = "await_current",
                                   !.user_id = Some(user_id),
                                   !.sub = Some(DictGet(subscriptions, user_id))]]
         /\ ev' = AwaitEvent(t, user_id, "get_current_weather")
    ELSE /\ tasks' = [tasks EXCEPT ![t] = ReturnTo(tk, [ret |-> <<>>, raised |-> FALSE])]
         /\ ev' = CheckEvent(t, user_id, "skipped", None, None,
                             [ret |-> <<>>, raised |-> FALSE], <<>>, 0)

\* POST /alerts/check/{user_id} (routes.py check_alerts_now)
CheckAlertsNow(t, user_id) ==
    /\ NoTaskRunning
    /\ tasks[t].kind = "idle"
    /\ EnterCheck(t, [IdleTask EXCEPT !.kind = "manual"], user_id)
    /\ UNCHANGED <<subscriptions, heap, running, prev_run, device_tokens, crowd, initialized, now>>

\* A fetch of task t raised: the except clause of check_weather_for_user
FetchFailed(t, fetches) ==
    LET tk == tasks[t]
        r == OnFetchError(<<>>)
        tks == [tasks EXCEPT ![t] =
                   ReturnTo([tk EXCEPT !.failed = @ \cup {Val(tk.user_id)}], r)]
        h == Collect(heap, subscriptions, tks)
    IN  /\ tasks' = tks
        /\ heap' = h
        /\ prev_run' = CollectHist(prev_run, h)
        /\ ev' = CheckEvent(t, Val(tk.user_id), "failed", tk.sub, tk.current,
                            r, <<>>, fetches)
        /\ UNCHANGED <<subscriptions, running, device_tokens, crowd, initialized, now>>

\* get_current_weather comes back to task t: res is None when it raised
FetchCurrentReturns(t, res) ==
    /\ NoTaskRunning
    /\ tasks[t].pc = "await_current"
    /\ IF IsNone(res)
       THEN FetchFailed(t, 1)
       ELSE /\ tasks' = [tasks EXCEPT ![t].current = res, ![t].pc = "await_forecast"]
            /\ ev' = AwaitEvent(t, Val(tasks[t].user_id), "get_hourly_forecast")
            /\ UNCHANGED <<subscriptions, heap, running, prev_run, device_tokens, crowd,
                           initialized, now>>

\* get_hourly_forecast comes back to task t (lines 134-186): evaluation,
\* dispatch and the write of last_checked / last_conditions run without
\* suspending.
FetchForecastReturns(t, res, accepts) ==
    /\ NoTaskRunning
    /\ tasks[t].pc = "await_forecast"
    /\ IF IsNone(res)
       THEN FetchFailed(t, 2)
       ELSE LET tk == tasks[t]
                id == Val(tk.sub)
                sub == Val(heap[id])
                current == Val(tk.current)
                found == Evaluate(sub, current, Val(res))
                d == Dispatch(device_tokens, initialized, Val(tk.user_id),
                              sub.location_name, found, accepts, now)
                after == RecordCheck(sub, current, now)
                r == [ret |-> [i \in 1..Len(found) |-> found[i].alert], raised |-> FALSE]
                tks == [tasks EXCEPT ![t] = ReturnTo(tk, r)]
                h == Collect([heap EXCEPT ![id] = Some(after)], subscriptions, tks)
            IN  /\ tasks' = tks
                /\ heap' = h
                /\ prev_run' = CollectHist([prev_run EXCEPT ![id] = Some(current)], h)
                /\ device_tokens' = d.tokens
                /\ ev' = CheckEvent(t, Val(tk.user_id), "ok", tk.sub, tk.current,
                                    r, d.calls, 2)
                /\ UNCHANGED <<crowd, subscriptions, running, initialized, now>>

\* start_monitoring() (lines 277-286): returns at once when a loop is
\* marked running, else sets the flag and enters the first cycle.
StartMonitoring(t) ==
    /\ NoTaskRunning
    /\ tasks[t].kind = "idle"
    /\ running' = TRUE
    /\ tasks' = IF running THEN tasks
                ELSE [tasks EXCEPT ![t] = LoopTop(IdleTask, TRUE, subscriptions)]
    /\ ev' = [op |-> "start_monitoring", task |-> t, entered |-> ~running]
    /\ UNCHANGED <<subscriptions, heap, prev_run, device_tokens, crowd, initialized, now>>

\* stop_monitoring(); every loop alive at the call is marked as stopped
\* (history, read by no step of the program).
StopMonitoring ==
    /\ NoTaskRunning
    /\ running' = FALSE
    /\ tasks' = [t \in TaskIds |->
                    IF tasks[t].kind = "loop"
                    THEN [tasks[t] EXCEPT !.stopped = TRUE] ELSE tasks[t]]
    /\ ev' = [op |-> "stop_monitoring"]
    /\ UNCHANGED <<subscriptions, heap, prev_run, device_tokens, crowd, initialized, now>>

\* The for loop of the running loop task t takes its next user (lines
\* 286-288), or ends the cycle in asyncio.sleep (line 293).
LoopNext(t) ==
    LET tk == tasks[t]
    IN  /\ tk.pc = "loop_next"
        /\ IF tk.idx > Len(tk.snapshot)
           THEN /\ tasks' = [tasks EXCEPT ![t].pc = "sleep"]
                /\ ev' = AwaitEvent(t, "", "sleep")
           ELSE EnterCheck(t, [tk EXCEPT !.attempted = Append(@, tk.snapshot[tk.idx])],
                           tk.snapshot[tk.idx])
        /\ UNCHANGED <<subscriptions, heap, running, prev_run, device_tokens, crowd,
                       initialized, now>>

\* asyncio.sleep comes back to loop task t: the while test (line 285)
SleepReturns(t) ==
    /\ NoTaskRunning
    /\ tasks[t].pc = "sleep"
    /\ tasks' = [tasks EXCEPT ![t] = LoopTop(tasks[t], running, subscriptions)]
    /\ ev' = [op |-> "wake", task |-> t, entered |-> running]
    /\ UNCHANGED <<subscriptions, heap, running, prev_run, device_tokens, crowd, initialized, now>>

-----------------------------------------------------------------------------
(* The program and what it is given *)

Locations == {[latitude |-> 40, longitude |-> -74, location_name |-> "New York"]}

SubscribeKwargs ==
    {EmptyDict,
     "rain_alerts" :> FALSE,
     "temperature_alerts" :> FALSE,
     "severe_weather_alerts" :> FALSE}

UpdateKwargs ==
    {"alerts_enabled" :> TRUE,
     "alerts_enabled" :> FALSE,
     "last_conditions" :> None,
     "nickname" :> "x",
     "user_id" :> "u2"}

DeviceTokenValues == {"tokA"}

Currents ==
    {CurrentWeather(70, 0, 10, 15, 1),
     CurrentWeather(100, 0, 10, 15, 95),
     CurrentWeather(30, 1, 40, 60, 61)}

Forecasts ==
    {HourlyForecast(<<Some(20)>>),
     HourlyForecast(<<Some(10), None, Some(80), Some(90)>>)}

Accepts == IF initialized THEN [1..3 -> BOOLEAN] ELSE {<<TRUE, TRUE, TRUE>>}

Init ==
    /\ subscriptions = <<>>
    /\ heap = [o \in ObjIds |-> None]
    /\ running = FALSE
    /\ prev_run = [o \in ObjIds |-> None]
    /\ tasks = [t \in TaskIds |-> IdleTask]
    /\ device_tokens = [u \in Users |-> None]
    /\ crowd = EmptyDict
    /\ initialized \in BOOLEAN
    /\ now = 0
    /\ ev = [op |-> "init"]

\* One user and the /alerts/check requests for it, with every registry and
\* device operation free to run while a check is suspended in a fetch.
CheckUsers == {"u1"}
CheckTasks == {"t1"}

Next ==
    \/ \E u \in CheckUsers, loc \in Locations, kw \in SubscribeKwargs : Subscribe(u, loc, kw)
    \/ \E u \in CheckUsers : Unsubscribe(u)
    \/ \E u \in CheckUsers, kw \in UpdateKwargs : UpdateSubscription(u, kw)
    \/ \E u \in CheckUsers, d \in DeviceTokenValues : RegisterDevice(u, d)
    \/ \E u \in CheckUsers : UnregisterDevice(u)
    \/ \E t \in CheckTasks, u \in CheckUsers : CheckAlertsNow(t, u)
    \/ \E t \in CheckTasks, c \in Currents : FetchCurrentReturns(t, Some(c))
    \/ \E t \in CheckTasks : FetchCurrentReturns(t, None)
    \/ \E t \in CheckTasks, f \in Forecasts, a \in Accepts :
          FetchForecastReturns(t, Some(f), a)
    \/ \E t \in CheckTasks : FetchForecastReturns(t, None, <<>>)

Spec == Init /\ [][Next]_vars

\* The monitoring loop over two users, with one reading of the weather.
LoopCurrents == {CurrentWeather(100, 0, 10, 15, 1)}
LoopForecasts == {HourlyForecast(<<Some(20)>>)}
LoopKwargs == {EmptyDict}

LoopTasks == {"t1"}

NextLoop ==
    \/ \E u \in Users, loc \in Locations, kw \in LoopKwargs : Subscribe(u, loc, kw)
    \/ \E u \in Users : Unsubscribe(u)
    \/ \E t \in LoopTasks : StartMonitoring(t)
    \/ StopMonitoring
    \/ \E t \in LoopTasks : LoopNext(t)
    \/ \E t \in LoopTasks : SleepReturns(t)
    \/ \E t \in LoopTasks, c \in LoopCurrents : FetchCurrentReturns(t, Some(c))
    \/ \E t \in LoopTasks : FetchCurrentReturns(t, None)
    \/ \E t \in LoopTasks, f \in LoopForecasts, a \in Accepts :
          FetchForecastReturns(t, Some(f), a)
    \/ \E t \in LoopTasks : FetchForecastReturns(t, None, <<>>)

\* get_notification_service() builds the NotificationService without
\* credentials: the push transport is not initialized.
InitLoop ==
    /\ subscriptions = <<>>
    /\ heap = [o \in ObjIds |-> None]
    /\ running = FALSE
    /\ prev_run = [o \in ObjIds |-> None]
    /\ tasks = [t \in TaskIds |-> IdleTask]
    /\ device_tokens = [u \in Users |-> None]
    /\ crowd = EmptyDict
    /\ initialized = FALSE
    /\ now = 0
    /\ ev = [op |-> "init"]

SpecLoop == InitLoop /\ [][NextLoop]_vars

\* What the event loop owes loop task t: it resumes a runnable task, a fetch
\* comes back with a result or an exception, asyncio.sleep comes back.
LoopStep(t) ==
    \/ LoopNext(t)
    \/ SleepReturns(t)
    \/ \E c \in LoopCurrents : FetchCurrentReturns(t, Some(c))
    \/ FetchCurrentReturns(t, None)
    \/ \E f \in LoopForecasts, a \in Accepts : FetchForecastReturns(t, Some(f), a)
    \/ FetchForecastReturns(t, None, <<>>)

SpecLoopFair == SpecLoop /\ \A t \in LoopTasks : WF_vars(LoopStep(t))

\* start_monitoring() called more than once: every task may be the coroutine
\* of a start_monitoring call, with one user in the registry.
RestartUsers == {"u1"}

NextRestart ==
    \/ \E u \in RestartUsers, loc \in Locations, kw \in LoopKwargs : Subscribe(u, loc, kw)
    \/ \E u \in RestartUsers : Unsubscribe(u)
    \/ \E t \in TaskIds : StartMonitoring(t)
    \/ StopMonitoring
    \/ \E t \in TaskIds : LoopNext(t)
    \/ \E t \in TaskIds : SleepReturns(t)
    \/ \E t \in TaskIds, c \in LoopCurrents : FetchCurrentReturns(t, Some(c))
    \/ \E t \in TaskIds : FetchCurrentReturns(t, None)
    \/ \E t \in TaskIds, f \in LoopForecasts, a \in Accepts :
          FetchForecastReturns(t, Some(f), a)
    \/ \E t \in TaskIds : FetchForecastReturns(t, None, <<>>)

SpecRestart == InitLoop /\ [][NextRestart]_vars

\* The registry operations on their own, for two users: coordinates as the
\* /alerts/subscribe route passes them on (any float), options that are
\* fields of the dataclass, updates with recognized and unrecognized names.
RegistryLocations ==
    {[latitude |-> 40, longitude |-> -74, location_name |-> "New York"],
     [latitude |-> 91, longitude |-> 200, location_name |-> "Nowhere"]}

RegistryKwargs ==
    {EmptyDict,
     "alerts_enabled" :> FALSE @@ "temperature_threshold_high" :> 90}

RegistryUpdates ==
    {"rain_alerts" :> FALSE @@ "nickname" :> "x",
     "last_checked" :> Some(7),
     "nickname" :> "x"}

NextRegistry ==
    \/ \E u \in Users, loc \in RegistryLocations, kw \in RegistryKwargs :
          Subscribe(u, loc, kw)
    \/ \E u \in Users : Unsubscribe(u)
    \/ \E u \in Users, kw \in RegistryUpdates : UpdateSubscription(u, kw)

SpecRegistry == InitLoop /\ [][NextRegistry]_vars

\* The device registry near its capacity: u1 and the users no call names
\* registered at hour 0, n entries in all, and u1 and u2 make the calls.
FillLevels == {MAX_TOKENS - CleanupMargin - 1, MAX_TOKENS - 1, MAX_TOKENS}

\* The clock's readings: 30 days and an hour, MaxDays days
TimePoints == {TOKEN_TTL_DAYS * HoursPerDay + 1, MaxDays * HoursPerDay}

InitTokens ==
    /\ subscriptions = <<>>
    /\ heap = [o \in ObjIds |-> None]
    /\ running = FALSE
    /\ prev_run = [o \in ObjIds |-> None]
    /\ tasks = [t \in TaskIds |-> IdleTask]
    /\ device_tokens = [u \in Users |->
                          IF u = "u1" THEN Some(DeviceToken("tok0", 0, 0)) ELSE None]
    /\ \E n \in FillLevels : crowd = (0 :> (n - 1))
    /\ initialized \in BOOLEAN
    /\ now = 0
    /\ ev = [op |-> "init"]

\* Checks that overlap: the monitoring loop on task t1 and /alerts/check
\* requests on task t2, for two users, with the clock moving once and two
\* readings of the weather.
ManualTasks == {"t2"}

ConcurrentCurrents == {CurrentWeather(100, 0, 10, 15, 1), CurrentWeather(30, 0, 10, 15, 1)}

ConcurrentTimes == {1}

\* Both users subscribed at New York with the default options and
\* registered their devices at hour 0
InitConcurrent ==
    /\ subscriptions = <<<<"u1", 1>>, <<"u2", 2>>>>
    /\ heap = [o \in ObjIds |->
                 IF o = 1 THEN Some(UserWeatherSubscription("u1", 40, -74, "New York", EmptyDict))
                 ELSE IF o = 2
                 THEN Some(UserWeatherSubscription("u2", 40, -74, "New York", EmptyDict))
                 ELSE None]
    /\ running = FALSE
    /\ prev_run = [o \in ObjIds |-> None]
    /\ tasks = [t \in TaskIds |-> IdleTask]
    /\ device_tokens = [u \in Users |-> Some(DeviceToken("tokA", 0, 0))]
    /\ crowd = EmptyDict
    /\ initialized = FALSE
    /\ now = 0
    /\ ev = [op |-> "init"]

NextConcurrent ==
    \/ \E t \in ConcurrentTimes : Tick(t)
    \/ \E t \in LoopTasks : StartMonitoring(t)
    \/ \E t \in LoopTasks : LoopNext(t)
    \/ \E t \in LoopTasks : SleepReturns(t)
    \/ \E t \in ManualTasks, u \in Users : CheckAlertsNow(t, u)
    \/ \E t \in TaskIds, c \in ConcurrentCurrents : FetchCurrentReturns(t, Some(c))
    \/ \E t \in TaskIds : FetchCurrentReturns(t, None)
    \/ \E t \in TaskIds, f \in LoopForecasts, a \in Accepts :
          FetchForecastReturns(t, Some(f), a)
    \/ \E t \in TaskIds : FetchForecastReturns(t, None, <<>>)

SpecConcurrent == InitConcurrent /\ [][NextConcurrent]_vars

\* The user_ids lists of send_to_multiple: two users, in either order or
\* one of them twice
UserLists == [1..2 -> Users]

\* The strings POST /notifications/register passes on as device_token
TokenStrings == {"", "tokA"}

NextTokens ==
    \/ \E u \in Users, d \in TokenStrings : RegisterDevice(u, d)
    \/ \E u \in Users : UnregisterDevice(u)
    \/ \E u \in Users : GetDeviceToken(u)
    \/ \E u \in Users, a \in BOOLEAN : SendNotification(u, a)
    \/ \E us \in UserLists, a \in [1..2 -> BOOLEAN] : SendToMultiple(us, a)
    \/ \E t \in TimePoints : Tick(t)

SpecTokens == InitTokens /\ [][NextTokens]_vars

-----------------------------------------------------------------------------
(* The evaluator's three checks, called on their own with literal
   conditions, as tests/test_services.py calls them *)

EvalWinds == {0, 35, 36}
EvalGusts == {0, 50, 51}
EvalTemps == {27, 31, 32, 33, 36, 37, 70, 90, 91, 94, 95, 96, 99, 100}
EvalThresholds == {<<95, 32>>, <<90, 36>>, <<32, 95>>}
EvalProbs == {None, Some(60), Some(61), Some(90)}
EvalPrecipitation == {0, 1}

RECURSIVE SeqsUpTo(_, _)
SeqsUpTo(S, n) ==
    IF n = 0 THEN {<<>>}
    ELSE LET shorter == SeqsUpTo(S, n - 1)
         IN  shorter \cup {Append(q, x) : q \in {r \in shorter : Len(r) = n - 1}, x \in S}

DefaultSub == UserWeatherSubscription("u1", 40, -74, "New York", EmptyDict)

EvalCalls ==
    {[op |-> "call", fn |-> "_check_severe_weather",
      current |-> CurrentWeather(70, 0, w, g, c), forecast |-> None, sub |-> DefaultSub] :
        w \in EvalWinds, g \in EvalGusts, c \in WMOCodes}
    \cup
    {[op |-> "call", fn |-> "_check_rain",
      current |-> CurrentWeather(70, p, 10, 15, 1),
      forecast |-> Some(HourlyForecast(q)), sub |-> DefaultSub] :
        p \in EvalPrecipitation, q \in SeqsUpTo(EvalProbs, MaxForecastLen)}
    \cup
    {[op |-> "call", fn |-> "_check_temperature",
      current |-> CurrentWeather(temp, 0, 10, 15, 1), forecast |-> None,
      sub |-> UserWeatherSubscription("u1", 40, -74, "New York",
                 "temperature_threshold_high" :> th[1] @@ "temperature_threshold_low" :> th[2]
                 @@ "last_conditions" :> last)] :
        temp \in EvalTemps, th \in EvalThresholds,
        last \in {None} \cup {Some(CurrentWeather(l, 0, 10, 15, 1)) : l \in EvalTemps}}

InitEval ==
    /\ subscriptions = <<>>
    /\ heap = [o \in ObjIds |-> None]
    /\ running = FALSE
    /\ prev_run = [o \in ObjIds |-> None]
    /\ tasks = [t \in TaskIds |-> IdleTask]
    /\ device_tokens = [u \in Users |-> None]
    /\ crowd = EmptyDict
    /\ initialized = FALSE
    /\ now = 0
    /\ ev \in EvalCalls

Returned(r) == [op |-> ev.fn, current |-> ev.current, forecast |-> ev.forecast,
                sub |-> ev.sub, ret |-> r]

CallSevere ==
    /\ ev.op = "call" /\ ev.fn = "_check_severe_weather"
    /\ ev' = Returned(_check_severe_weather(ev.current, ev.sub))
    /\ UNCHANGED <<subscriptions, heap, running, prev_run, tasks, device_tokens, crowd,
                   initialized, now>>

CallRain ==
    /\ ev.op = "call" /\ ev.fn = "_check_rain"
    /\ ev' = Returned(_check_rain(ev.current, Val(ev.forecast), ev.sub))
    /\ UNCHANGED <<subscriptions, heap, running, prev_run, tasks, device_tokens, crowd,
                   initialized, now>>

CallTemperature ==
    /\ ev.op = "call" /\ ev.fn = "_check_temperature"
    /\ ev' = Returned(_check_temperature(ev.current, ev.sub))
    /\ UNCHANGED <<subscriptions, heap, running, prev_run, tasks, device_tokens, crowd,
                   initialized, now>>

NextEval == CallSevere \/ CallRain \/ CallTemperature

SpecEval == InitEval /\ [][NextEval]_vars


-----------------------------------------------------------------------------
(* Properties of the evaluator *)

IsAlert(r, type) == ~IsNone(r) /\ Val(r).type = type

\* C1: _check_severe_weather decides on (weather_code, wind_speed,
\* wind_gusts) alone: a code in {65, 67, 75, 82, 86, 95, 96, 99} gives
\* severe_weather whatever the wind; any other code gives high_wind when
\* wind_gusts > 50 or wind_speed > 35; otherwise there is no alert.
C1_SevereDecision ==
    ev.op = "_check_severe_weather" =>
        LET c == ev.current
            severe == c.weather_code \in {65, 67, 75, 82, 86, 95, 96, 99}
            windy == c.wind_gusts > 50 \/ c.wind_speed > 35
        IN  /\ severe => IsAlert(ev.ret, "severe_weather")
            /\ ~severe /\ windy => IsAlert(ev.ret, "high_wind")
            /\ ~severe /\ ~windy => IsNone(ev.ret)

\* A thunderstorm with gusts over the wind limit came back as severe_weather.
C1_Witness ==
    /\ ev.op = "_check_severe_weather"
    /\ ev.current.weather_code = 95
    /\ ev.current.wind_gusts = 51
    /\ IsAlert(ev.ret, "severe_weather")

\* C2: _check_temperature returns nothing when a previous snapshot exists
\* and the temperature moved by less than 5 since; otherwise temperature >=
\* high threshold gives high_temperature, else temperature <= low threshold
\* gives low_temperature, else nothing.
C2_TemperatureDecision ==
    ev.op = "_check_temperature" =>
        LET temp == ev.current.temperature
            last == ev.sub.last_conditions
            delta == temp - Val(last).temperature
            suppressed == ~IsNone(last) /\ delta < 5 /\ delta > -5
            high == temp >= ev.sub.temperature_threshold_high
            low == temp <= ev.sub.temperature_threshold_low
        IN  /\ suppressed => IsNone(ev.ret)
            /\ ~suppressed /\ high => IsAlert(ev.ret, "high_temperature")
            /\ ~suppressed /\ ~high /\ low => IsAlert(ev.ret, "low_temperature")
            /\ ~suppressed /\ ~high /\ ~low => IsNone(ev.ret)

\* A reading exactly at the high threshold, 5 degrees from the previous
\* snapshot, alerted.
C2_Witness ==
    /\ ev.op = "_check_temperature"
    /\ ev.current.temperature = ev.sub.temperature_threshold_high
    /\ ~IsNone(ev.sub.last_conditions)
    /\ Val(ev.sub.last_conditions).temperature = ev.current.temperature - 5
    /\ IsAlert(ev.ret, "high_temperature")

\* C3: _check_rain returns nothing while it is raining; otherwise it
\* returns rain_coming with the probability of the first of the first 6
\* forecast points whose probability is > 60, and nothing when none of those
\* 6 is, whatever the later points say.
C3_RainDecision ==
    ev.op = "_check_rain" =>
        LET points == Val(ev.forecast).forecasts
            over(k) == /\ k <= Len(points)
                       /\ points[k].precipitation_probability # None
                       /\ points[k].precipitation_probability[1] > 60
            first(k) == over(k) /\ \A j \in 1..(k - 1) : ~over(j)
        IN  IF ev.current.precipitation > 0
            THEN IsNone(ev.ret)
            ELSE /\ \A k \in 1..6 :
                      first(k) => /\ IsAlert(ev.ret, "rain_coming")
                                  /\ Val(ev.ret).probability =
                                        points[k].precipitation_probability[1]
                 /\ (\A k \in 1..6 : ~over(k)) => IsNone(ev.ret)

\* Dry now, six quiet hours and a seventh at 90%: no alert.
C3_Witness ==
    /\ ev.op = "_check_rain"
    /\ ev.current.precipitation = 0
    /\ Len(Val(ev.forecast).forecasts) = 7
    /\ Val(ev.forecast).forecasts[7].precipitation_probability = Some(90)
    /\ IsNone(ev.ret)

-----------------------------------------------------------------------------
(* Properties of check_weather_for_user *)

\* The step just taken ended a check_weather_for_user call with `outcome`.
Checked(e, outcome) == e.op = "check_weather_for_user" /\ e.outcome = outcome

\* The three categories, for an alert and for a dispatch
Category(type) ==
    CASE type \in {"severe_weather", "high_wind"} -> 1
      [] type = "rain_coming" -> 2
      [] type \in {"high_temperature", "low_temperature"} -> 3

CallCategory(alert_type) ==
    CASE alert_type \in {"severe_weather", "high_wind"} -> 1
      [] alert_type = "rain" -> 2
      [] alert_type = "temperature" -> 3

\* C4: while the fetched temperature stays the same beyond a threshold, a
\* completed run on a subscription object whose previous completed run
\* fetched that same temperature emits and dispatches no temperature alert.
C4_NoRepeatedTemperatureAlert ==
    [][Checked(ev', "ok") =>
        LET id == Val(ev'.sub)
            sub == Val(heap[id])
            temp == Val(ev'.current).temperature
        IN  (/\ sub.temperature_alerts
             /\ ~IsNone(prev_run[id])
             /\ Val(prev_run[id]).temperature = temp
             /\ \/ temp >= sub.temperature_threshold_high
                \/ temp <= sub.temperature_threshold_low)
            => /\ \A i \in 1..Len(ev'.ret) : Category(ev'.ret[i].type) # 3
               /\ \A i \in 1..Len(ev'.calls) : CallCategory(ev'.calls[i].alert_type) # 3]_vars

\* C5: check_weather_for_user(u) entered when u has no subscription, or one
\* with alerts_enabled false, returns [] without a fetch or a dispatch and
\* leaves registry, objects, device entries and tasks as they were.
C5_NoSubscriptionNoCheck ==
    [][LET entered == \/ ev'.op = "await" /\ ev'.what = "get_current_weather"
                      \/ Checked(ev', "skipped")
           u == ev'.user_id
           absent == \A i \in 1..Len(subscriptions) : subscriptions[i][1] # u
           disabled == \E i \in 1..Len(subscriptions) :
                          /\ subscriptions[i][1] = u
                          /\ ~Val(heap[subscriptions[i][2]]).alerts_enabled
       IN  entered /\ (absent \/ disabled)
           => /\ Checked(ev', "skipped")
              /\ ev'.ret = <<>>
              /\ ev'.fetches = 0
              /\ ev'.calls = <<>>
              /\ ~ev'.raised
              /\ \A t \in TaskIds : tasks'[t].pc \notin {"await_current", "await_forecast"}
                                    \/ tasks'[t] = tasks[t]
              /\ UNCHANGED <<subscriptions, heap, device_tokens>>]_vars

\* A check came back empty for a subscribed user whose master switch is off.
C5_Witness ==
    /\ Checked(ev, "skipped")
    /\ DictHas(subscriptions, ev.user_id)
    /\ ~Val(heap[DictGet(subscriptions, ev.user_id)]).alerts_enabled
    /\ ev.ret = <<>>

\* C6: one run returns at most three alerts, at most one per category, in
\* the order severe/wind, rain, temperature; a category whose toggle is off
\* has no alert in the list and no dispatch in that run.
C6_OnePerCategoryInOrder ==
    [][ev'.op = "check_weather_for_user" =>
        /\ Len(ev'.ret) <= 3
        /\ \A i, j \in 1..Len(ev'.ret) :
              i < j => Category(ev'.ret[i].type) < Category(ev'.ret[j].type)
        /\ ~IsNone(ev'.sub) =>
              LET sub == Val(heap[Val(ev'.sub)])
                  off == (IF sub.severe_weather_alerts THEN {} ELSE {1})
                         \cup (IF sub.rain_alerts THEN {} ELSE {2})
                         \cup (IF sub.temperature_alerts THEN {} ELSE {3})
              IN  /\ \A i \in 1..Len(ev'.ret) : Category(ev'.ret[i].type) \notin off
                  /\ \A i \in 1..Len(ev'.calls) :
                        CallCategory(ev'.calls[i].alert_type) \notin off]_vars

\* A thunderstorm at 100 degrees with rain ahead, checked with the severe
\* toggle off: rain then temperature, nothing for the storm.
C6_Witness ==
    /\ Checked(ev, "ok")
    /\ Val(ev.current).weather_code = 95
    /\ ~IsNone(heap[Val(ev.sub)])
    /\ ~Val(heap[Val(ev.sub)]).severe_weather_alerts
    /\ Len(ev.ret) = 2
    /\ ev.ret[1].type = "rain_coming"
    /\ ev.ret[2].type = "high_temperature"

\* C7: in a run that raised nothing, the dispatches are the returned alerts,
\* one each and in list order, to the checked user, with severity "severe"
\* for severe_weather and high_wind, "warning" for rain_coming, "info" for
\* high_temperature and low_temperature, whether or not delivery succeeded.
C7_EveryAlertDispatchedOnce ==
    (ev.op = "check_weather_for_user" /\ ~ev.raised) =>
        /\ Len(ev.calls) = Len(ev.ret)
        /\ \A i \in 1..Len(ev.ret) :
              /\ ev.calls[i].user_id = ev.user_id
              /\ ev.calls[i].message = ev.ret[i].message
              /\ CallCategory(ev.calls[i].alert_type) = Category(ev.ret[i].type)
              /\ ev.calls[i].severity =
                    CASE ev.ret[i].type \in {"severe_weather", "high_wind"} -> "severe"
                      [] ev.ret[i].type = "rain_coming" -> "warning"
                      [] ev.ret[i].type \in {"high_temperature", "low_temperature"} -> "info"

\* Three alerts returned for a user with no device token: three dispatches,
\* none delivered.
C7_Witness ==
    /\ Checked(ev, "ok")
    /\ Len(ev.ret) = 3
    /\ Len(ev.calls) = 3
    /\ \A i \in 1..3 : ~ev.calls[i].delivered
    /\ IsNone(device_tokens[ev.user_id])

C9_FetchFailureChangesNothing ==
    [][Checked(ev', "failed") =>
        /\ ev'.ret = <<>>
        /\ ev'.calls = <<>>
        /\ ~ev'.raised
        /\ ev'.fetches \in {1, 2}
        /\ \A o \in ObjIds : IsNone(heap'[o]) \/ heap'[o] = heap[o]
        /\ UNCHANGED <<subscriptions, device_tokens>>]_vars

\* The forecast fetch failed after a thunderstorm at 100 degrees had been
\* fetched for a registered, never-checked subscription: nothing reported,
\* nothing recorded.
C9_Witness ==
    /\ Checked(ev, "failed")
    /\ ev.fetches = 2
    /\ Val(ev.current).weather_code = 95
    /\ ev.ret = <<>>
    /\ DictHas(subscriptions, ev.user_id)
    /\ DictGet(subscriptions, ev.user_id) = Val(ev.sub)
    /\ IsNone(Val(heap[Val(ev.sub)]).last_checked)
    /\ IsNone(Val(heap[Val(ev.sub)]).last_conditions)

-----------------------------------------------------------------------------
(* Properties of the monitoring loop *)

\* C10: a failed check leaves the loop task in its for loop, at the next
\* user of the same snapshot; whenever the loop reaches its sleep it has
\* called check_weather_for_user for every user of that snapshot; a cycle,
\* failures or not, always reaches its sleep; and a sleep that comes back
\* with the flag still set starts the next cycle on a fresh snapshot.
C10_FailureDoesNotStopCycle ==
    /\ [][\A t \in TaskIds :
            /\ (Checked(ev', "failed") /\ ev'.task = t /\ tasks[t].kind = "loop")
               => /\ tasks'[t].kind = "loop"
                  /\ tasks'[t].pc = "loop_next"
                  /\ tasks'[t].snapshot = tasks[t].snapshot
                  /\ tasks'[t].idx = tasks[t].idx + 1
            /\ tasks'[t].pc = "sleep" => tasks'[t].attempted = tasks'[t].snapshot
            /\ (ev'.op = "wake" /\ ev'.task = t /\ running)
               => /\ tasks'[t].kind = "loop"
                  /\ tasks'[t].pc = "loop_next"
                  /\ tasks'[t].snapshot = DictKeys(subscriptions)
                  /\ tasks'[t].idx = 1]_vars
    /\ \A t \in LoopTasks :
          /\ (tasks[t].kind = "loop" /\ tasks[t].pc # "sleep") ~> (tasks[t].pc = "sleep")
          /\ (tasks[t].pc = "sleep") ~> (tasks[t].pc # "sleep")

\* The loop sleeps after a cycle over two users in which the check of the
\* first one failed.
C10_Witness ==
    \E t \in TaskIds :
        /\ tasks[t].pc = "sleep"
        /\ Len(tasks[t].snapshot) = 2
        /\ tasks[t].snapshot[1] \in tasks[t].failed
        /\ tasks[t].attempted = tasks[t].snapshot

\* C11: a loop that was alive when stop_monitoring() was called starts no
\* further cycle: when its sleep comes back, its start_monitoring call ends.
C11_StoppedLoopExits ==
    [][\A t \in TaskIds :
          (tasks[t].stopped /\ ev'.op = "wake" /\ ev'.task = t)
             => tasks'[t] = IdleTask]_vars

-----------------------------------------------------------------------------
(* Properties of the subscription registry *)

\* The subscription the registry holds for user u, None when it holds none
Lookup(subs, h, u) == IF DictHas(subs, u) THEN h[DictGet(subs, u)] ELSE None

\* C13: subscribe(u, latitude, longitude, location_name, options) returns
\* true and leaves exactly one registry entry for u, whose fields are the
\* arguments passed and, for every option not passed, the defaults (switch
\* and toggles true, thresholds 95 and 32, last_checked and last_conditions
\* None), whatever u's subscription was before.
C13_SubscribeReplaces ==
    [][ev'.op = "subscribe" =>
        LET u == ev'.user_id
            kw == ev'.kwargs
            Opt(field, default) == IF field \in DOMAIN kw THEN kw[field] ELSE default
        IN  /\ ev'.ret = TRUE
            /\ Cardinality({i \in 1..Len(subscriptions') : subscriptions'[i][1] = u}) = 1
            /\ Lookup(subscriptions', heap', u) =
                  Some([user_id |-> u,
                        latitude |-> ev'.location.latitude,
                        longitude |-> ev'.location.longitude,
                        location_name |-> ev'.location.location_name,
                        alerts_enabled |-> Opt("alerts_enabled", TRUE),
                        rain_alerts |-> Opt("rain_alerts", TRUE),
                        temperature_alerts |-> Opt("temperature_alerts", TRUE),
                        severe_weather_alerts |-> Opt("severe_weather_alerts", TRUE),
                        temperature_threshold_high |-> Opt("temperature_threshold_high", 95),
                        temperature_threshold_low |-> Opt("temperature_threshold_low", 32),
                        last_checked |-> Opt("last_checked", None),
                        last_conditions |-> Opt("last_conditions", None)])]_vars

\* u1, who had a subscription, has just subscribed again without options
\* while u2 holds a subscription with options: u1's optional fields are at
\* their defaults.
C13_Witness ==
    /\ ev.op = "subscribe"
    /\ ev.user_id = "u1"
    /\ ev.replaced
    /\ ev.kwargs = EmptyDict
    /\ Val(Lookup(subscriptions, heap, "u1")).alerts_enabled
    /\ IsNone(Val(Lookup(subscriptions, heap, "u1")).last_checked)
    /\ DictHas(subscriptions, "u2")
    /\ ~Val(Lookup(subscriptions, heap, "u2")).alerts_enabled

\* C14: unsubscribe(u) returns true exactly when u had a subscription; u is
\* absent afterwards; when u had none nothing changes; every other user
\* keeps its registry entry and its subscription as they were.
C14_UnsubscribeRemovesOnlyUser ==
    [][ev'.op = "unsubscribe" =>
        LET u == ev'.user_id
            had == \E i \in 1..Len(subscriptions) : subscriptions[i][1] = u
        IN  /\ ev'.ret = had
            /\ \A i \in 1..Len(subscriptions') : subscriptions'[i][1] # u
            /\ ~had => UNCHANGED <<subscriptions, heap>>
            /\ \A v \in Users \ {u} :
                  Lookup(subscriptions', heap', v) = Lookup(subscriptions, heap, v)]_vars

\* u1 has just been unsubscribed with result true and u2 is still there.
C14_Witness ==
    /\ ev.op = "unsubscribe"
    /\ ev.user_id = "u1"
    /\ ev.ret = TRUE
    /\ ~DictHas(subscriptions, "u1")
    /\ DictHas(subscriptions, "u2")

\* C15: update_subscription(u, updates) returns false and changes nothing
\* when u has no subscription; otherwise it returns true, the named fields
\* that are subscription attributes take the given values, every other
\* field of u's subscription stays, no attribute is added for a name the
\* subscription does not have, and other users' subscriptions stay.
C15_UpdateSetsNamedFields ==
    [][ev'.op = "update_subscription" =>
        LET u == ev'.user_id
            kw == ev'.kwargs
            had == \E i \in 1..Len(subscriptions) : subscriptions[i][1] = u
            old == Val(Lookup(subscriptions, heap, u))
            new == Val(Lookup(subscriptions', heap', u))
        IN  /\ ev'.ret = had
            /\ subscriptions' = subscriptions
            /\ ~had => heap' = heap
            /\ had => /\ DOMAIN new = SubscriptionFields
                      /\ \A f \in SubscriptionFields :
                            new[f] = IF f \in DOMAIN kw THEN kw[f] ELSE old[f]
            /\ \A v \in Users \ {u} :
                  Lookup(subscriptions', heap', v) = Lookup(subscriptions, heap, v)]_vars

\* u1's subscription, created with options, has just been updated with
\* rain_alerts=False and an unknown name: the toggle is off, the options
\* given at creation are as they were, and u2 is subscribed as well.
C15_Witness ==
    /\ ev.op = "update_subscription"
    /\ ev.user_id = "u1"
    /\ ev.ret = TRUE
    /\ DOMAIN ev.kwargs = {"rain_alerts", "nickname"}
    /\ ~Val(Lookup(subscriptions, heap, "u1")).rain_alerts
    /\ ~Val(Lookup(subscriptions, heap, "u1")).alerts_enabled
    /\ Val(Lookup(subscriptions, heap, "u1")).temperature_threshold_high = 90
    /\ DictHas(subscriptions, "u2")

\* C16: a subscription is created with last_checked and last_conditions
\* None, and afterwards the two fields change only in the step that ends a
\* completed evaluation of that subscription.
C16_LastFieldsOnlyByCheck ==
    [][IF ev'.op = "subscribe"
       THEN LET new == Val(Lookup(subscriptions', heap', ev'.user_id))
            IN  IsNone(new.last_checked) /\ IsNone(new.last_conditions)
       ELSE \A o \in ObjIds :
              (/\ ~IsNone(heap[o])
               /\ ~IsNone(heap'[o])
               /\ \/ Val(heap'[o]).last_checked # Val(heap[o]).last_checked
                  \/ Val(heap'[o]).last_conditions # Val(heap[o]).last_conditions)
              => Checked(ev', "ok") /\ ev'.sub = Some(o)]_vars

\* C17: every subscription the registry holds has its latitude within
\* [-90, 90] and its longitude within [-180, 180].
C17_CoordinatesInRange ==
    \A i \in 1..Len(subscriptions) :
        LET sub == Val(heap[subscriptions[i][2]])
        IN  /\ -90 <= sub.latitude /\ sub.latitude <= 90
            /\ -180 <= sub.longitude /\ sub.longitude <= 180

-----------------------------------------------------------------------------
(* Properties of the device registry *)

\* C18: register_device(u, token) returns false and leaves the registry as it
\* was exactly when, after the cleanup pass it may run, the registry holds
\* MAX_TOKENS entries and u has none of them; in every other case it returns
\* true and u's entry holds the new token with registered_at and last_used
\* both the current time, whatever entry u had before, the entries that
\* survived the cleanup staying as they were.
C18_RegisterRejectsOnlyNewUserWhenFull ==
    [][ev'.op = "register_device" =>
          LET u == ev'.user_id
              pass == CleanupWhenNearLimit(device_tokens, crowd, now)
              cleaned == IF IsNone(pass) THEN device_tokens ELSE Val(pass).tokens
              rest == IF IsNone(pass) THEN crowd ELSE Val(pass).others
          IN  IF Size(cleaned, rest) = MAX_TOKENS /\ IsNone(cleaned[u])
              THEN /\ ev'.ret = FALSE
                   /\ device_tokens' = device_tokens
                   /\ crowd' = crowd
              ELSE /\ ev'.ret = TRUE
                   /\ device_tokens'[u] = Some(DeviceToken(ev'.device_token, now, now))
                   /\ \A v \in Users \ {u} : device_tokens'[v] = cleaned[v]
                   /\ crowd' = rest]_vars

\* C18 happens: a user who had an entry registered again while the registry
\* held MAX_TOKENS entries, and the entry now holds the new token
C18_Witness ==
    /\ ev.op = "register_device"
    /\ ev.present
    /\ ev.ret = TRUE
    /\ Size(device_tokens, crowd) = MAX_TOKENS
    /\ device_tokens[ev.user_id] = Some(DeviceToken(ev.device_token, now, now))
    /\ ev.device_token # "tok0"

\* C19: in every reachable state the registry holds at most MAX_TOKENS
\* entries, and at most one entry per user: the registry maps each user to
\* its one entry or to none, and each of the other entries is a user's own.
C19_RegistryWithinCapacity ==
    /\ Size(device_tokens, crowd) <= MAX_TOKENS
    /\ DOMAIN device_tokens = Users
    /\ \A u \in Users : Len(device_tokens[u]) <= 1

\* C19 happens: the registry is at its capacity and the registration of one
\* more user was just refused
C19_Witness ==
    /\ Size(device_tokens, crowd) = MAX_TOKENS
    /\ ev.op = "register_device"
    /\ ~ev.present
    /\ ev.ret = FALSE
    /\ IsNone(device_tokens[ev.user_id])

\* C20: the cleanup pass removes every entry last used more than the 30 days
\* of the TTL ago and no other entry, and returns the number removed; it
\* runs only from register_device, and there exactly when the registry
\* holds MAX_TOKENS - 100 entries or more.
C20_CleanupRemovesOlderThanTTL ==
    [][IF ev'.op = "register_device"
       THEN LET u == ev'.user_id
                ttl == TOKEN_TTL_DAYS * HoursPerDay
                old == {v \in Registered(device_tokens) :
                           now - Val(device_tokens[v]).last_used > ttl}
                hours == {h \in DOMAIN crowd : now - h > ttl}
            IN  IF Size(device_tokens, crowd) >= MAX_TOKENS - CleanupMargin
                THEN /\ ev'.cleanup = Some(Cardinality(old) + Entries(crowd, hours))
                     /\ \A v \in Users \ {u} :
                           device_tokens'[v] = IF v \in old THEN None ELSE device_tokens[v]
                     /\ crowd' = [h \in DOMAIN crowd \ hours |-> crowd[h]]
                ELSE /\ ev'.cleanup = None
                     /\ \A v \in Users \ {u} : device_tokens'[v] = device_tokens[v]
                     /\ crowd' = crowd
       ELSE /\ crowd' = crowd
            /\ \A v \in Users :
                  IsNone(device_tokens'[v]) /\ ~IsNone(device_tokens[v])
                      => ev'.op = "unregister_device" /\ ev'.user_id = v]_vars

C22_UnregisterRemovesEntry ==
    [][/\ ev'.op = "unregister_device" =>
             LET u == ev'.user_id
             IN  /\ ev'.ret = ~IsNone(device_tokens[u])
                 /\ IsNone(device_tokens'[u])
                 /\ \A v \in Users \ {u} : device_tokens'[v] = device_tokens[v]
                 /\ crowd' = crowd
       /\ \A u \in Users :
             IsNone(device_tokens[u]) =>
                /\ ev'.op = "get_device_token" /\ ev'.user_id = u => ev'.ret = None
                /\ ev'.op = "send_notification" /\ ev'.user_id = u
                      => ev'.ret = FALSE /\ ~ev'.pushed
                /\ ~IsNone(device_tokens'[u])
                      => ev'.op = "register_device" /\ ev'.user_id = u]_vars

\* C22 happens: a user who had an entry unregistered, and the entry is gone
C22_Witness ==
    /\ ev.op = "unregister_device"
    /\ ev.ret = TRUE
    /\ IsNone(device_tokens[ev.user_id])
    /\ now > 0

\* C23: send_notification(u, ...) returns false without a push when u has no
\* registered token; when u has one and the push transport is not
\* initialized it returns true without a push; when the transport is
\* initialized the message is pushed and the call returns true if the
\* transport takes it and false if the transport raises.  send_to_multiple
\* gives each user of its list the result the user's own (last) send has by
\* this rule, whatever happens to the other users.
C23_SendReportsDelivery ==
    [][/\ ev'.op = "send_notification" =>
             IF IsNone(device_tokens[ev'.user_id])
             THEN ev'.ret = FALSE /\ ~ev'.pushed
             ELSE IF ~initialized
             THEN ev'.ret = TRUE /\ ~ev'.pushed
             ELSE ev'.ret = ev'.accepts /\ ev'.pushed
       /\ ev'.op = "send_to_multiple" =>
             \A u \in Users :
                LET at == {i \in 1..Len(ev'.user_ids) : ev'.user_ids[i] = u}
                IN  IF at = {}
                    THEN IsNone(ev'.results[u])
                    ELSE LET last == CHOOSE i \in at : \A j \in at : j <= i
                         IN  /\ ev'.results[u] =
                                    Some(IF IsNone(device_tokens[u]) THEN FALSE
                                         ELSE IF ~initialized THEN TRUE
                                         ELSE ev'.accepts[last])
                             /\ \A i \in at :
                                   i \in ev'.pushed
                                       <=> ~IsNone(device_tokens[u]) /\ initialized]_vars

-----------------------------------------------------------------------------
(* Properties of overlapping checks *)

\* C24: with checks of the loop and of /alerts/check requests interleaved,
\* every step of a check for user u leaves the registry, every other user's
\* subscription and every other user's device entry as they were; and a
\* check that completes returns the alerts that u's subscription and the
\* weather it fetched give, dispatches them to u alone, writes u's
\* subscription and refreshes no entry but u's: what it does when it runs
\* alone.
C24_ChecksOfDifferentUsersDisjoint ==
    [][ev'.op \in {"check_weather_for_user", "await"} /\ ev'.user_id \in Users =>
          LET u == ev'.user_id
          IN  /\ subscriptions' = subscriptions
              /\ \A v \in Users \ {u} :
                    /\ device_tokens'[v] = device_tokens[v]
                    /\ Lookup(subscriptions', heap', v) = Lookup(subscriptions, heap, v)
              /\ Checked(ev', "ok") =>
                    LET id == Val(ev'.sub)
                        sub == Val(heap[id])
                    IN  \E f \in LoopForecasts :
                          LET found == Evaluate(sub, Val(ev'.current), f)
                          IN  /\ ev'.ret = [i \in 1..Len(found) |-> found[i].alert]
                              /\ Len(ev'.calls) = Len(found)
                              /\ \A i \in 1..Len(found) :
                                    /\ ev'.calls[i].user_id = u
                                    /\ ev'.calls[i].delivered = ~IsNone(device_tokens[u])
                              /\ heap'[id] = Some(RecordCheck(sub, Val(ev'.current), now))
                              /\ device_tokens'[u] =
                                    IF found = <<>> \/ IsNone(device_tokens[u])
                                    THEN device_tokens[u]
                                    ELSE Some(DeviceToken(Val(device_tokens[u]).token,
                                                          Val(device_tokens[u]).registered_at,
                                                          now))]_vars

\* C24 happens: a check for one user completed with an alert delivered while
\* another task was suspended in a check for the other user, whose device
\* entry still has the last_used it had
C24_Witness ==
    /\ Checked(ev, "ok")
    /\ ev.ret # <<>>
    /\ Val(device_tokens[ev.user_id]).last_used = now
    /\ \E t \in TaskIds \ {ev.task}, v \in Users \ {ev.user_id} :
          /\ tasks[t].pc \in {"await_current", "await_forecast"}
          /\ tasks[t].user_id = Some(v)
          /\ Val(device_tokens[v]).last_used < now

\* C25: with a loop check and an /alerts/check request for the same user
\* interleaved, last_checked and last_conditions of a subscription change
\* only together, in the one step that completes a check of it, to the time
\* of that step and to the conditions that check fetched; so no state shows
\* one field written and the other not, and after both checks the fields are
\* those of the check that completed last.
C25_CheckWriteIsAtomic ==
    [][\A id \in ObjIds :
          ~IsNone(heap'[id]) =>
             LET after == Val(heap'[id])
             IN  /\ IsNone(after.last_checked) <=> IsNone(after.last_conditions)
                 /\ /\ ~IsNone(heap[id])
                    /\ \/ after.last_checked # Val(heap[id]).last_checked
                       \/ after.last_conditions # Val(heap[id]).last_conditions
                    => /\ Checked(ev', "ok")
                       /\ ev'.sub = Some(id)
                       /\ after.last_checked = Some(now)
                       /\ after.last_conditions = ev'.current]_vars

\* C25 happens: a check of a user completed and wrote its reading while the
\* other task, holding another reading, is still suspended in a check of the
\* same subscription
C25_Witness ==
    /\ Checked(ev, "ok")
    /\ Val(heap[Val(ev.sub)]).last_conditions = ev.current
    /\ Val(heap[Val(ev.sub)]).last_checked = Some(now)
    /\ \E t \in TaskIds \ {ev.task} :
          /\ tasks[t].pc = "await_forecast"
          /\ tasks[t].sub = ev.sub
          /\ tasks[t].current # ev.current

-----------------------------------------------------------------------------
(* Properties of the rain alert *)

\* C26: a rain_coming alert has a field time_ahead, the 1-based position of
\* the forecast point that triggered it: the first of the first 6 points
\* whose probability is > 60.
C26_RainAlertTimeAhead ==
    ev.op = "_check_rain" /\ IsAlert(ev.ret, "rain_coming") =>
        LET points == Val(ev.forecast).forecasts
            over(k) == /\ k <= Len(points)
                       /\ points[k].precipitation_probability # None
                       /\ points[k].precipitation_probability[1] > 60
        IN  /\ "time_ahead" \in DOMAIN Val(ev.ret)
            /\ \A k \in 1..6 :
                  over(k) /\ (\A j \in 1..(k - 1) : ~over(j)) => Val(ev.ret).time_ahead = k

-----------------------------------------------------------------------------
(* Properties of start_monitoring and stop_monitoring *)

\* C27: at most one monitoring loop is active at any time, whatever the
\* order of the start_monitoring and stop_monitoring calls.  A loop is
\* active while it is in a cycle, and while it sleeps with the flag set, for
\* then it goes into another cycle when it wakes.
C27_AtMostOneLoop ==
    Cardinality({t \in TaskIds :
                    /\ tasks[t].kind = "loop"
                    /\ tasks[t].pc = "sleep" => running}) <= 1

-----------------------------------------------------------------------------
(* Properties of the registry against running checks *)

\* C28: while u has no subscription (never subscribed, or unsubscribed and
\* not subscribed again), no check_weather_for_user(u) returns an alert or
\* dispatches a notification for u, not even a run that was suspended in a
\* weather fetch when u unsubscribed.
C28_NoAlertAfterUnsubscribe ==
    [][ev'.op = "check_weather_for_user" /\ ~DictHas(subscriptions, ev'.user_id) =>
          /\ ev'.ret = <<>>
          /\ ev'.calls = <<>>]_vars

\* C29: in every reachable state, the subscription the registry holds under
\* key u has user_id = u, whatever subscribe, update_subscription,
\* unsubscribe and check_weather_for_user calls came before.
C29_KeyIsUserId ==
    \A i \in 1..Len(subscriptions) :
        /\ ~IsNone(heap[subscriptions[i][2]])
        /\ Val(heap[subscriptions[i][2]]).user_id = subscriptions[i][1]

\* C29 happens: update_subscription was called for a subscribed user with
\* user_id among the keywords, and the subscription is still the user's own
C29_Witness ==
    /\ ev.op = "TypeError"
    /\ ev.call = "update_subscription"
    /\ "user_id" \in DOMAIN ev.kwargs
    /\ DictHas(subscriptions, ev.user_id)
    /\ Val(heap[DictGet(subscriptions, ev.user_id)]).user_id = ev.user_id
    /\ ~IsNone(Val(heap[DictGet(subscriptions, ev.user_id)]).last_checked)

-----------------------------------------------------------------------------
(* Properties of token expiry *)

\* C30: an entry last used more than 30 days ago is expired:
\* get_device_token does not return its token, send_notification does not
\* use it, and neither sets its last_used to the current time.
C30_ExpiredTokenNotUsed ==
    [][\A u \in Users :
          /\ ev'.op \in {"get_device_token", "send_notification"}
          /\ ev'.user_id = u
          /\ ~IsNone(device_tokens[u])
          /\ now - Val(device_tokens[u]).last_used > TOKEN_TTL_DAYS * HoursPerDay
          => /\ ev'.op = "get_device_token" => ev'.ret = None
             /\ ev'.op = "send_notification" => ev'.ret = FALSE /\ ~ev'.pushed
             /\ \/ IsNone(device_tokens'[u])
                \/ device_tokens'[u] = device_tokens[u]]_vars

=============================================================================
